---- MODULE Spec2Model ----
(***************************************************************************)
(* A model of the LSM key-value engine of go-leveldb-from-scratch:         *)
(* internal keys and their comparator, the write-ahead log, the MemTable,  *)
(* the SSTable writer and reader, and the engine (NewDB, Put, Delete, Get, *)
(* flushMemtable with its background goroutine, Close), together with the  *)
(* files of the data directory and process crashes.                        *)
(***************************************************************************)
EXTENDS Integers, Sequences, FiniteSets, TLC

(***************************************************************************)
(* Bounds of the model.                                                    *)
(***************************************************************************)
\* Put/Delete calls over the lifetime of the data directory, with two writers
\* and with damage to the WAL segments
MaxOps == 2
\* Put/Delete calls over the lifetime of the data directory, one writer
MaxSeqOps == 3
\* length in bytes of the one long value the writers use
BigLen == 4096
\* length in bytes of every user key
KeyLen == 1
\* the 64-bit sequence domain, scaled to SeqBits bits
SeqBits == 5
\* the records of a MemTable written to an SSTable on its own
MaxRecords == 3
\* the Put calls of the bulk load, each of which takes the MemTable over the
\* threshold
BulkPuts == 3
\* the Put calls that end the bulk load and leave the MemTable under the
\* threshold
BulkTail == 1

Keys == {1, 2}
Writers == {1, 2}

(***************************************************************************)
(* Program constants.                                                      *)
(***************************************************************************)
MemTableSizeThreshold == 4096
DataBlockSize == 4096
\* bytes of a gob-encoded InternalKey besides the user key bytes
GobKeyOverhead == 64
OpTypePut == 0
OpTypeDelete == 1

MaxUint64 == 2 ^ SeqBits - 1
MaxInt64 == 2 ^ (SeqBits - 1) - 1

(***************************************************************************)
(* Byte slices.  A Go []byte is nil, or a non-nil slice of some bytes.     *)
(* NilVal is the nil slice; "" is the empty non-nil slice; BigVal is a     *)
(* slice of BigLen bytes.                                                  *)
(***************************************************************************)
NilVal == "nil"
EmptyVal == ""
BigVal == "B"
Values == {NilVal, EmptyVal, BigVal}

\* len(value)
ByteLen(v) == IF v = BigVal THEN BigLen ELSE 0
\* the bytes of a slice as a file holds them, read back into a fresh
\* make([]byte, n) or a sub-slice of one: never nil
Bytes(v) == IF v = NilVal THEN EmptyVal ELSE v

(***************************************************************************)
(* Internal keys (internal_key.go).                                        *)
(***************************************************************************)
InternalKey(k, s, t) == [UserKey |-> k, SeqNum |-> s, Type |-> t]

\* UserKey ascending, then SeqNum descending; Type is not compared
Compare(ik1, ik2) ==
    IF ik1.UserKey > ik2.UserKey THEN 1
    ELSE IF ik1.UserKey < ik2.UserKey THEN -1
    ELSE IF ik1.SeqNum > ik2.SeqNum THEN -1
    ELSE IF ik1.SeqNum < ik2.SeqNum THEN 1
    ELSE 0

(***************************************************************************)
(* The skip list of a MemTable: a set of elements [key, value], at most    *)
(* one for each class of keys that Compare holds equal.                    *)
(***************************************************************************)
\* skiplist.Set: the element of an equal key keeps its key and takes the value
SkipSet(data, key, value) ==
    IF \E e \in data : Compare(e.key, key) = 0
    THEN {IF Compare(e.key, key) = 0 THEN [e EXCEPT !.value = value] ELSE e : e \in data}
    ELSE data \cup {[key |-> key, value |-> value]}

\* skiplist.Find: the first element whose key is >= key, as a set of 0 or 1
SkipFind(data, key) ==
    LET ge == {e \in data : Compare(e.key, key) >= 0}
    IN  IF ge = {} THEN {}
        ELSE {CHOOSE e \in ge : \A f \in ge : Compare(e.key, f.key) <= 0}

\* Front()/Next(): the elements in Compare order
RECURSIVE SkipItems(_)
SkipItems(data) ==
    IF data = {} THEN <<>>
    ELSE LET first == CHOOSE e \in data : \A f \in data : Compare(e.key, f.key) <= 0
         IN  <<first>> \o SkipItems(data \ {first})

(***************************************************************************)
(* MemTable (memtable.go).                                                 *)
(***************************************************************************)
NewMemTable == [data |-> {}, size |-> 0]

MemTablePut(m, key, value) ==
    [data |-> SkipSet(m.data, key, value),
     size |-> m.size + KeyLen + ByteLen(value)]

\* a probe that would carry the lowest sequence number
MemSearchKeyLowest(userKey) == InternalKey(userKey, 0, OpTypePut)

\* the probe of MemTable.Get
MemSearchKey(userKey) == InternalKey(userKey, MaxUint64, OpTypePut)

MemTableGet(m, userKey) ==
    LET element == SkipFind(m.data, MemSearchKey(userKey))
    IN  IF element = {} THEN [val |-> NilVal, found |-> FALSE]
        ELSE LET el == CHOOSE e \in element : TRUE
             IN  IF el.key.UserKey # userKey THEN [val |-> NilVal, found |-> FALSE]
                 ELSE IF el.key.Type = OpTypeDelete THEN [val |-> NilVal, found |-> TRUE]
                 ELSE [val |-> el.value, found |-> TRUE]

ApproximateSize(m) == m.size

(***************************************************************************)
(* Write-ahead log (the WAL of internal_key.go, lines 46-217).  A WAL file *)
(* is its complete records and, possibly, the leading bytes of one more    *)
(* record at its end (torn).                                               *)
(***************************************************************************)
OpPut == 0
OpDelete == 1

NoFile == [ex |-> FALSE, recs |-> <<>>, torn |-> FALSE]
EmptyFile == [ex |-> TRUE, recs |-> <<>>, torn |-> FALSE]

\* crc32.ChecksumIEEE over the bytes from the sequence to the end of the value
ChecksumIEEE(seq, op, key, val) ==
    (31 * seq + 17 * op + 7 * key + (IF val = BigVal THEN 3 ELSE 0)) % 251

\* the record WAL.Write encodes for a LogEntry
WalRecord(entry) ==
    [crc |-> ChecksumIEEE(entry.SeqNum, entry.Op, entry.Key, Bytes(entry.Value)),
     seq |-> entry.SeqNum, op |-> entry.Op, key |-> entry.Key,
     val |-> Bytes(entry.Value)]

\* Replay without the comparison of the two checksums
ChecksumIgnored(r) == TRUE

\* the comparison of the stored and the actual checksum in Replay
ChecksumMatches(r) == r.crc = ChecksumIEEE(r.seq, r.op, r.key, r.val)

\* the sequence number read last, whatever came before
Latest(a, b) == b

Max(a, b) == IF a > b THEN a ELSE b

\* the read loop of Replay: data maps InternalKey to RecoveredValue
RECURSIVE ReplayLoop(_, _, _, _)
ReplayLoop(recs, i, data, maxSeqNum) ==
    IF i > Len(recs) THEN [err |-> FALSE, data |-> data, maxSeq |-> maxSeqNum]
    ELSE IF ~ChecksumMatches(recs[i]) THEN [err |-> TRUE, data |-> {}, maxSeq |-> 0]
    ELSE LET r == recs[i]
             internalKey == InternalKey(r.key, r.seq, r.op)
             rv == [Value |-> r.val, Type |-> r.op]
         IN  ReplayLoop(recs, i + 1,
                        {d \in data : d.key # internalKey}
                            \cup {[key |-> internalKey, rv |-> rv]},
                        Max(maxSeqNum, r.seq))

\* Replay(path): a missing file is an empty mapping; a checksum mismatch and
\* a record cut short are errors
Replay(file) ==
    IF ~file.ex THEN [err |-> FALSE, data |-> {}, maxSeq |-> 0]
    ELSE LET res == ReplayLoop(file.recs, 1, {}, 0)
         IN  IF res.err \/ file.torn THEN [err |-> TRUE, data |-> {}, maxSeq |-> 0]
             ELSE res

(***************************************************************************)
(* SSTable writer and reader (memtable.go, lines 72-332).                  *)
(***************************************************************************)
NoSST == [st |-> "absent", blocks |-> <<>>, index |-> <<>>, filter |-> {}]
PartialSST == [st |-> "partial", blocks |-> <<>>, index |-> <<>>, filter |-> {}]

\* gob: the fields of the struct that are not zero, by field number
GobEncode(ik) ==
    [f \in {1} \cup (IF ik.SeqNum # 0 THEN {2} ELSE {})
                \cup (IF ik.Type # 0 THEN {3} ELSE {})
        |-> IF f = 1 THEN ik.UserKey ELSE IF f = 2 THEN ik.SeqNum ELSE ik.Type]

\* gob: decoded into a zero InternalKey
GobDecode(kb) ==
    [UserKey |-> kb[1],
     SeqNum |-> IF 2 \in DOMAIN kb THEN kb[2] ELSE 0,
     Type |-> IF 3 \in DOMAIN kb THEN kb[3] ELSE 0]

\* the bytes one record adds to the block buffer
RecordLen(rec) == 4 + 4 + GobKeyOverhead + KeyLen + ByteLen(rec.val)

RECURSIVE BufferLen(_)
BufferLen(buf) ==
    IF buf = <<>> THEN 0 ELSE RecordLen(Head(buf)) + BufferLen(Tail(buf))

\* the loop of WriteSSTable over the elements of the skip list, and the
\* residual block after it
RECURSIVE WriteLoop(_, _, _, _, _, _)
WriteLoop(items, i, blocks, index, buf, filter) ==
    IF i > Len(items)
    THEN IF BufferLen(buf) > 0
         THEN [st |-> "ok", blocks |-> Append(blocks, buf),
               index |-> Append(index, GobDecode(buf[Len(buf)].kb)), filter |-> filter]
         ELSE [st |-> "ok", blocks |-> blocks, index |-> index, filter |-> filter]
    ELSE LET el == items[i]
             full == BufferLen(buf) > DataBlockSize
             blocks1 == IF full THEN Append(blocks, buf) ELSE blocks
             index1 == IF full THEN Append(index, GobDecode(buf[Len(buf)].kb)) ELSE index
             buf1 == IF full THEN <<>> ELSE buf
             rec == [kb |-> GobEncode(el.key), val |-> Bytes(el.value)]
         IN  WriteLoop(items, i + 1, blocks1, index1, Append(buf1, rec),
                       filter \cup {el.key.UserKey})

WriteSSTable(items) == WriteLoop(items, 1, <<>>, <<>>, <<>>, {})

\* filter.Test: no false negative; fp is a false positive
BloomTest(filter, userKey, fp) == userKey \in filter \/ fp

\* the probe of SSTableReader.Get
SSTSearchKey(userKey) == InternalKey(userKey, MaxInt64, OpTypePut)

\* sort.Search(len(index), f) for f(i) = Compare(index[i].LastKey, searchKey) >= 0
RECURSIVE SortSearch(_, _, _, _)
SortSearch(index, searchKey, i, j) ==
    IF i < j
    THEN LET h == (i + j) \div 2
         IN  IF ~(Compare(index[h + 1], searchKey) >= 0)
             THEN SortSearch(index, searchKey, h + 1, j)
             ELSE SortSearch(index, searchKey, i, h)
    ELSE i

\* the scan of one data block for the first record of the user key
RECURSIVE ScanBlock(_, _, _)
ScanBlock(block, i, userKey) ==
    IF i > Len(block) THEN [val |-> NilVal, found |-> FALSE]
    ELSE LET ik == GobDecode(block[i].kb)
         IN  IF ik.UserKey = userKey
             THEN IF ik.Type = OpTypeDelete
                  THEN [val |-> NilVal, found |-> TRUE]
                  ELSE [val |-> block[i].val, found |-> TRUE]
             ELSE ScanBlock(block, i + 1, userKey)

SSTableReaderGet(r, userKey, fp) ==
    IF ~BloomTest(r.filter, userKey, fp) THEN [val |-> NilVal, found |-> FALSE]
    ELSE LET blockIndex == SortSearch(r.index, SSTSearchKey(userKey), 0, Len(r.index))
         IN  IF blockIndex >= Len(r.index) THEN [val |-> NilVal, found |-> FALSE]
             ELSE ScanBlock(r.blocks[blockIndex + 1], 1, userKey)

\* NewSSTableReader fails on a missing file and on one without its footer
ReaderOpens(file) == file.st = "ok"

(***************************************************************************)
(* The engine (db.go) and the data directory.                              *)
(***************************************************************************)
VARIABLES
    \* the data directory
    stateFile,      \* state.json: NoState, TornState or the saved SSTableCounter
    walActive,      \* db.wal
    walRot,         \* wal-NNNNN.log, by ordinal
    sst,            \* NNNNN.sst, by ordinal
    \* the process
    proc,           \* "down" (no engine) or "up" (NewDB has returned a DB)
    openErr,        \* whether the last NewDB returned an error
    mt,             \* the MemTable objects of the process, by generation
    gen,            \* db.mem and db.wal: the generation of the active pair
    walClosed,      \* whether the file of db.wal has been closed
    immGen,         \* db.immutableMem: a generation, or NoGen for nil
    ssTableCounter, \* db.ssTableCounter
    sequenceNum,    \* db.sequenceNum
    wr,             \* the goroutines calling Put and Delete
    flushers,       \* the goroutines started by flushMemtable
    \* history
    nOps,           \* Put and Delete calls so far
    hiSeq,          \* the highest sequence number ever assigned
    last,           \* per key, the last write that returned nil
    everDel,        \* whether Delete has ever been called
    pre             \* what Get returned when the process last ended

disk == <<stateFile, walActive, walRot, sst>>
engine == <<proc, openErr, mt, gen, walClosed, immGen, ssTableCounter, sequenceNum>>
history == <<nOps, hiSeq, last, everDel, pre>>
vars == <<stateFile, walActive, walRot, sst, proc, openErr, mt, gen, walClosed,
          immGen, ssTableCounter, sequenceNum, wr, flushers, nOps, hiSeq, last,
          everDel, pre>>

\* the calls any specification allows
OpsBound == Max(MaxOps, MaxSeqOps)
MaxOrd == OpsBound + 1
Ordinals == 1..MaxOrd
Gens == 0..OpsBound
NoGen == -1
NoState == 0
TornState == -1

NotFound == [val |-> NilVal, found |-> FALSE]
IdleWriter ==
    [pc |-> "idle", op |-> OpPut, key |-> 1, val |-> NilVal, seq |-> 0, h |-> 0,
     ovl |-> FALSE]
PreNone == [kind |-> "none", get |-> [k \in Keys |-> NotFound], busy |-> {}]
NoWrite == [st |-> "none", val |-> EmptyVal]
Ambiguous == [st |-> "ambiguous", val |-> EmptyVal]


(***************************************************************************)
(* DB.Get.                                                                 *)
(***************************************************************************)
\* the verdict of one source: found with nil is a tombstone
Verdict(r) == IF r.val = NilVal THEN NotFound ELSE [val |-> r.val, found |-> TRUE]

\* the loop over the SSTables, from i down to 1
RECURSIVE SearchSSTables(_, _, _)
\* a loop that would return at the first SSTable it cannot open
SearchStopsOnError(i, key, fp) ==
    IF i <= 0 THEN NotFound
    ELSE IF ~ReaderOpens(sst[i]) THEN NotFound
    ELSE LET r == SSTableReaderGet(sst[i], key, fp)
         IN  IF r.found THEN Verdict(r) ELSE SearchSSTables(i - 1, key, fp)

SearchSSTables(i, key, fp) ==
    IF i <= 0 THEN NotFound
    ELSE IF ~ReaderOpens(sst[i]) THEN SearchSSTables(i - 1, key, fp)
    ELSE LET r == SSTableReaderGet(sst[i], key, fp)
         IN  IF r.found THEN Verdict(r) ELSE SearchSSTables(i - 1, key, fp)

\* a Get that would consult db.immutableMem before db.mem
GetImmutableFirst(key, fp) ==
    LET r1 == MemTableGet(mt[gen], key)
        r2 == IF immGen # NoGen THEN MemTableGet(mt[immGen], key) ELSE NotFound
    IN  IF r2.found THEN Verdict(r2)
        ELSE IF r1.found THEN Verdict(r1)
        ELSE SearchSSTables(ssTableCounter - 1, key, fp)

GetFP(key, fp) ==
    LET r1 == MemTableGet(mt[gen], key)
        r2 == IF immGen # NoGen THEN MemTableGet(mt[immGen], key) ELSE NotFound
    IN  IF r1.found THEN Verdict(r1)
        ELSE IF r2.found THEN Verdict(r2)
        ELSE SearchSSTables(ssTableCounter - 1, key, fp)

Get(key) == GetFP(key, FALSE)

(***************************************************************************)
(* NewDB.                                                                  *)
(***************************************************************************)
\* for key, value := range recoveredData { mem.Put(key, value.Value) }
RECURSIVE PutAll(_, _)
PutAll(m, data) ==
    IF data = {} THEN m
    ELSE LET d == CHOOSE x \in data : TRUE
         IN  PutAll(MemTablePut(m, d.key, d.rv.Value), data \ {d})

\* the rotated segments in the order of their names, then db.wal
WalFiles == [i \in 1..(MaxOrd + 1) |-> IF i <= MaxOrd THEN walRot[i] ELSE walActive]

\* the loop of NewDB over walFiles
RECURSIVE Recover(_, _, _, _)
Recover(files, i, mem, maxSeqNum) ==
    IF i > Len(files) THEN [err |-> FALSE, mem |-> mem, maxSeq |-> maxSeqNum]
    ELSE IF ~files[i].ex THEN Recover(files, i + 1, mem, maxSeqNum)
    ELSE LET r == Replay(files[i])
         IN  IF r.err THEN [err |-> TRUE, mem |-> NewMemTable, maxSeq |-> 0]
             ELSE Recover(files, i + 1, PutAll(mem, r.data), Max(maxSeqNum, r.maxSeq))

\* what NewDB computes before it opens db.wal
Recovery ==
    IF stateFile = TornState THEN [err |-> TRUE, mem |-> NewMemTable, maxSeq |-> 0]
    ELSE Recover(WalFiles, 1, NewMemTable, 0)

NewDB ==
    /\ proc = "down"
    /\ LET rec == Recovery
       IN  IF rec.err
           THEN /\ openErr' = TRUE
                /\ UNCHANGED <<disk, proc, mt, gen, walClosed, immGen,
                               ssTableCounter, sequenceNum>>
           ELSE /\ openErr' = FALSE
                /\ proc' = "up"
                /\ mt' = [g \in Gens |-> IF g = 0 THEN rec.mem ELSE NewMemTable]
                /\ gen' = 0
                /\ walClosed' = FALSE
                /\ immGen' = NoGen
                /\ ssTableCounter' = IF stateFile = NoState THEN 1 ELSE stateFile
                /\ sequenceNum' = rec.maxSeq
                /\ walActive' = [walActive EXCEPT !.ex = TRUE]
                /\ stateFile' = IF stateFile = NoState THEN 1 ELSE stateFile
                /\ UNCHANGED <<walRot, sst>>
    /\ pre' = PreNone
    /\ UNCHANGED <<wr, flushers, nOps, hiSeq, last, everDel>>

\* the process ends inside the os.WriteFile of NewDB's saveState
NewDBCrash ==
    /\ proc = "down"
    /\ ~Recovery.err
    /\ walActive' = [walActive EXCEPT !.ex = TRUE]
    /\ stateFile' = TornState
    /\ pre' = PreNone
    /\ UNCHANGED <<walRot, sst, engine, wr, flushers, nOps, hiSeq, last, everDel>>

(***************************************************************************)
(* Put and Delete, step by step.                                           *)
(***************************************************************************)
\* seqNum := db.sequenceNum.Add(1), and the entry built from the arguments
Begin(w, op, key, value) ==
    /\ proc = "up"
    /\ wr[w].pc = "idle"
    /\ LET seqNum == (sequenceNum + 1) % (MaxUint64 + 1)
           busy == \E x \in Writers \ {w} : wr[x].pc # "idle" /\ wr[x].key = key
       IN  /\ sequenceNum' = seqNum
           /\ wr' = [x \in Writers |->
                        IF x = w
                        THEN [pc |-> "seq", op |-> op, key |-> key, val |-> value,
                              seq |-> seqNum, h |-> 0, ovl |-> busy]
                        ELSE IF wr[x].pc # "idle" /\ wr[x].key = key
                        THEN [wr[x] EXCEPT !.ovl = TRUE]
                        ELSE wr[x]]
           /\ hiSeq' = Max(hiSeq, seqNum)
    /\ nOps' = nOps + 1
    /\ everDel' = (everDel \/ op = OpDelete)
    /\ UNCHANGED <<disk, proc, openErr, mt, gen, walClosed, immGen, ssTableCounter,
                   flushers, last, pre>>

Put(w, key, value) == Begin(w, OpPut, key, value)

Delete(w, key) == Begin(w, OpDelete, key, NilVal)

\* db.mu.RLock(); wal := db.wal; memTable := db.mem; db.mu.RUnlock()
Snapshot(w) ==
    /\ wr[w].pc = "seq"
    /\ wr' = [wr EXCEPT ![w].pc = "snap", ![w].h = gen]
    /\ UNCHANGED <<disk, engine, flushers, history>>

\* the WAL the writer holds is closed once it is rotated away or db.Close ran
HandleClosed(w) == wr[w].h # gen \/ walClosed

\* Put going on after wal.Write has returned an error
WalErrorIgnored(w) ==
    /\ wr[w].pc = "snap"
    /\ HandleClosed(w)
    /\ wr' = [wr EXCEPT ![w].pc = "logged"]
    /\ UNCHANGED <<disk, engine, flushers, history>>

\* wal.Write on a closed file: the flush fails and the call returns the error
WalWriteClosed(w) ==
    /\ wr[w].pc = "snap"
    /\ HandleClosed(w)
    /\ wr' = [wr EXCEPT ![w] = IdleWriter]
    /\ UNCHANGED <<disk, engine, flushers, history>>

\* the LogEntry of the writer
Entry(w) ==
    [Op |-> wr[w].op, Key |-> wr[w].key, Value |-> wr[w].val, SeqNum |-> wr[w].seq]

\* wal.Write, under the mutex of the WAL: the record is appended and synced
WalWrite(w) ==
    /\ wr[w].pc = "snap"
    /\ ~HandleClosed(w)
    /\ walActive' = [walActive EXCEPT !.recs = Append(@, WalRecord(Entry(w)))]
    /\ wr' = [wr EXCEPT ![w].pc = "logged"]
    /\ UNCHANGED <<stateFile, walRot, sst, engine, flushers, history>>

\* a MemTable no reference of the engine leads to any more keeps its size only
Live(g) == g = gen \/ g = immGen

\* memTable.Put(internalKey, value) on the MemTable the writer holds
MemPut(w) ==
    /\ wr[w].pc = "logged"
    /\ LET internalKey == InternalKey(wr[w].key, wr[w].seq, wr[w].op)
           m == MemTablePut(mt[wr[w].h], internalKey, wr[w].val)
       IN  mt' = [mt EXCEPT ![wr[w].h] =
                     IF Live(wr[w].h) THEN m ELSE [m EXCEPT !.data = {}]]
    /\ wr' = [wr EXCEPT ![w].pc = "put"]
    /\ UNCHANGED <<disk, proc, openErr, gen, walClosed, immGen, ssTableCounter,
                   sequenceNum, flushers, history>>

\* the write returns nil
Returned(w) ==
    /\ wr' = [wr EXCEPT ![w] = IdleWriter]
    /\ last' = [last EXCEPT ![wr[w].key] =
                   IF wr[w].ovl THEN Ambiguous
                   ELSE [st |-> IF wr[w].op = OpPut THEN "put" ELSE "del",
                         val |-> Bytes(wr[w].val)]]
    /\ UNCHANGED <<nOps, hiSeq, everDel, pre>>

\* Put without the test of the size of the MemTable
ThresholdIgnored(w) == FALSE

OverThreshold(w) == ApproximateSize(mt[wr[w].h]) > MemTableSizeThreshold

\* the MemTable is not over the threshold: return nil
NoFlush(w) ==
    /\ wr[w].pc = "put"
    /\ ~OverThreshold(w)
    /\ Returned(w)
    /\ UNCHANGED <<disk, engine, flushers>>

\* flushMemtable without the test of db.immutableMem
ImmutableIgnored == FALSE

\* the guard of flushMemtable
ImmutablePending == immGen # NoGen

\* flushMemtable with db.immutableMem set: unlock and return
FlushCoalesced(w) ==
    /\ wr[w].pc = "put"
    /\ OverThreshold(w)
    /\ ImmutablePending
    /\ Returned(w)
    /\ UNCHANGED <<disk, engine, flushers>>

\* flushMemtable: close and rename db.wal, open a new one, move db.mem to
\* db.immutableMem and start the goroutine
FlushRotate(w) ==
    /\ wr[w].pc = "put"
    /\ OverThreshold(w)
    /\ ~ImmutablePending
    /\ gen < OpsBound
    /\ walRot' = [walRot EXCEPT ![ssTableCounter] = walActive]
    /\ walActive' = EmptyFile
    /\ walClosed' = FALSE
    /\ immGen' = gen
    /\ gen' = gen + 1
    /\ mt' = [mt EXCEPT ![gen + 1] = NewMemTable]
    /\ flushers' = flushers \cup
                      {[pc |-> "start", imm |-> gen, wal |-> ssTableCounter,
                        ord |-> 0, snap |-> {}]}
    /\ Returned(w)
    /\ UNCHANGED <<stateFile, sst, proc, openErr, ssTableCounter, sequenceNum>>

(***************************************************************************)
(* The goroutine of flushMemtable.                                         *)
(***************************************************************************)
Step(f, g) == (flushers \ {f}) \cup {g}

\* a goroutine that increments db.ssTableCounter before it formats
\* sstablePath
FlushStartIncrementFirst(f) ==
    /\ f.pc = "start"
    /\ ssTableCounter < MaxOrd
    /\ sst' = [sst EXCEPT ![ssTableCounter + 1] = PartialSST]
    /\ ssTableCounter' = ssTableCounter + 1
    /\ flushers' = Step(f, [f EXCEPT !.pc = "writing", !.ord = ssTableCounter + 1,
                                     !.snap = mt[f.imm].data])
    /\ UNCHANGED <<stateFile, walActive, walRot, proc, openErr, mt, gen, walClosed,
                   immGen, sequenceNum, wr, history>>

\* sstablePath from db.ssTableCounter; db.ssTableCounter++; os.Create
FlushStart(f) ==
    /\ f.pc = "start"
    /\ ssTableCounter <= MaxOrd
    /\ sst' = [sst EXCEPT ![ssTableCounter] = PartialSST]
    /\ ssTableCounter' = ssTableCounter + 1
    /\ flushers' = Step(f, [f EXCEPT !.pc = "writing", !.ord = ssTableCounter,
                                     !.snap = mt[f.imm].data])
    /\ UNCHANGED <<stateFile, walActive, walRot, proc, openErr, mt, gen, walClosed,
                   immGen, sequenceNum, wr, history>>

\* the elements the unlocked iteration of imm.data meets: those present at
\* its start, with or without the ones a writer inserts meanwhile
Iterated(f) == {f.snap, mt[f.imm].data}

\* WriteSSTable returns nil: the file is complete and synced
FlushWrite(f) ==
    /\ f.pc = "writing"
    /\ \E data \in Iterated(f) :
          sst' = [sst EXCEPT ![f.ord] = WriteSSTable(SkipItems(data))]
    /\ flushers' = Step(f, [f EXCEPT !.pc = "written", !.snap = {}])
    /\ UNCHANGED <<stateFile, walActive, walRot, engine, wr, history>>

\* a goroutine that would return after db.saveState() and leave the rotated
\* WAL segment in the directory
FlushCommitKeepsWal(f) ==
    /\ f.pc = "written"
    /\ immGen' = NoGen
    /\ mt' = [g \in Gens |-> IF g = immGen /\ g # gen
                             THEN [mt[g] EXCEPT !.data = {}] ELSE mt[g]]
    /\ stateFile' = ssTableCounter
    /\ flushers' = flushers \ {f}
    /\ UNCHANGED <<walActive, walRot, sst, proc, openErr, gen, walClosed,
                   ssTableCounter, sequenceNum, wr, history>>

\* db.mu.Lock(); db.immutableMem = nil; db.saveState();
\* os.Remove(walToDelete); return (db.mu.Unlock)
FlushCommit(f) ==
    /\ f.pc = "written"
    /\ immGen' = NoGen
    /\ mt' = [g \in Gens |-> IF g = immGen /\ g # gen
                             THEN [mt[g] EXCEPT !.data = {}] ELSE mt[g]]
    /\ stateFile' = ssTableCounter
    /\ walRot' = [walRot EXCEPT ![f.wal] = NoFile]
    /\ flushers' = flushers \ {f}
    /\ UNCHANGED <<walActive, sst, proc, openErr, gen, walClosed, ssTableCounter,
                   sequenceNum, wr, history>>

(***************************************************************************)
(* Close, and the end of the process.                                      *)
(***************************************************************************)
\* db.wal.Close()
Close ==
    /\ proc = "up"
    /\ ~walClosed
    /\ walClosed' = TRUE
    /\ pre' = IF flushers = {} /\ \A w \in Writers : wr[w].pc = "idle"
              THEN [kind |-> "close", get |-> [k \in Keys |-> Get(k)], busy |-> {}]
              ELSE PreNone
    /\ UNCHANGED <<disk, proc, openErr, mt, gen, immGen, ssTableCounter,
                   sequenceNum, wr, flushers, nOps, hiSeq, last, everDel>>

\* a Put whose record is not yet in the WAL
PutInProgress == \E w \in Writers : wr[w].pc \in {"seq", "snap"} /\ wr[w].op = OpPut

\* the memory of the process is gone; the files stay as they are
ProcessEnds ==
    /\ proc' = "down"
    /\ mt' = [g \in Gens |-> NewMemTable]
    /\ gen' = 0
    /\ walClosed' = FALSE
    /\ immGen' = NoGen
    /\ ssTableCounter' = 0
    /\ sequenceNum' = 0
    /\ wr' = [w \in Writers |-> IdleWriter]
    /\ flushers' = {}
    /\ last' = [k \in Keys |->
                   IF \E w \in Writers : /\ wr[w].pc \in {"logged", "put"}
                                         /\ wr[w].key = k
                   THEN Ambiguous ELSE last[k]]
    /\ pre' = IF walClosed /\ pre.kind = "close" THEN pre
              ELSE IF PutInProgress
              THEN [kind |-> "crash", get |-> [k \in Keys |-> Get(k)],
                    busy |-> {wr[w].key : w \in {x \in Writers : wr[x].pc # "idle"}}]
              ELSE PreNone
    /\ UNCHANGED <<openErr, nOps, hiSeq, everDel>>

\* the process exits or is killed at any point
Crash ==
    /\ proc = "up"
    /\ ProcessEnds
    /\ UNCHANGED disk

\* the process ends inside wal.Write, with a part of the record in db.wal
WalWriteCrash(w) ==
    /\ proc = "up"
    /\ wr[w].pc = "snap"
    /\ ~HandleClosed(w)
    /\ walActive' = [walActive EXCEPT !.torn = TRUE]
    /\ ProcessEnds
    /\ UNCHANGED <<stateFile, walRot, sst>>

\* the process ends inside the goroutine's saveState, state.json truncated
\* and not yet written
FlushSaveCrash(f) ==
    /\ f.pc = "written"
    /\ stateFile' = TornState
    /\ ProcessEnds
    /\ UNCHANGED <<walActive, walRot, sst>>

\* the process ends between the goroutine's saveState and its os.Remove
FlushRemoveCrash(f) ==
    /\ f.pc = "written"
    /\ stateFile' = ssTableCounter
    /\ ProcessEnds
    /\ UNCHANGED <<walActive, walRot, sst>>

(***************************************************************************)
(* The specification.                                                      *)
(***************************************************************************)
Init ==
    /\ stateFile = NoState
    /\ walActive = NoFile
    /\ walRot = [i \in Ordinals |-> NoFile]
    /\ sst = [i \in Ordinals |-> NoSST]
    /\ proc = "down"
    /\ openErr = FALSE
    /\ mt = [g \in Gens |-> NewMemTable]
    /\ gen = 0
    /\ walClosed = FALSE
    /\ immGen = NoGen
    /\ ssTableCounter = 0
    /\ sequenceNum = 0
    /\ wr = [w \in Writers |-> IdleWriter]
    /\ flushers = {}
    /\ nOps = 0
    /\ hiSeq = 0
    /\ last = [k \in Keys |-> NoWrite]
    /\ everDel = FALSE
    /\ pre = PreNone

Next ==
    \/ NewDB
    \/ NewDBCrash
    \/ nOps < MaxOps /\ \E w \in Writers, k \in Keys, v \in Values : Put(w, k, v)
    \/ nOps < MaxOps /\ \E w \in Writers, k \in Keys : Delete(w, k)
    \/ \E w \in Writers : Snapshot(w)
    \/ \E w \in Writers : WalWriteClosed(w)
    \/ \E w \in Writers : WalWrite(w)
    \/ \E w \in Writers : MemPut(w)
    \/ \E w \in Writers : NoFlush(w)
    \/ \E w \in Writers : FlushCoalesced(w)
    \/ \E w \in Writers : FlushRotate(w)
    \/ \E f \in flushers : FlushStart(f)
    \/ \E f \in flushers : FlushWrite(f)
    \/ \E f \in flushers : FlushCommit(f)
    \/ Close
    \/ Crash
    \/ \E w \in Writers : WalWriteCrash(w)
    \/ \E f \in flushers : FlushSaveCrash(f)
    \/ \E f \in flushers : FlushRemoveCrash(f)

Spec == Init /\ [][Next]_vars

\* one goroutine calls the engine; the flush goroutine runs beside it
NextSeq ==
    \/ NewDB
    \/ NewDBCrash
    \/ nOps < MaxSeqOps /\ \E k \in Keys, v \in Values : Put(1, k, v)
    \/ nOps < MaxSeqOps /\ \E k \in Keys : Delete(1, k)
    \/ Snapshot(1)
    \/ WalWriteClosed(1)
    \/ WalWrite(1)
    \/ MemPut(1)
    \/ NoFlush(1)
    \/ FlushCoalesced(1)
    \/ FlushRotate(1)
    \/ \E f \in flushers : FlushStart(f)
    \/ \E f \in flushers : FlushWrite(f)
    \/ \E f \in flushers : FlushCommit(f)
    \/ Close
    \/ Crash
    \/ WalWriteCrash(1)
    \/ \E f \in flushers : FlushSaveCrash(f)
    \/ \E f \in flushers : FlushRemoveCrash(f)

SpecSeq == Init /\ [][NextSeq]_vars

(***************************************************************************)
(* Damage to a WAL segment while no process has the directory open.        *)
(***************************************************************************)
Fields == {"crc", "seq", "op", "key", "val"}

\* the record with one of its fields changed
Damaged(r, field) ==
    CASE field = "crc" -> [r EXCEPT !.crc = (r.crc + 1) % 251]
      [] field = "seq" -> [r EXCEPT !.seq = (r.seq + 1) % (MaxUint64 + 1)]
      [] field = "op"  -> [r EXCEPT !.op = 1 - r.op]
      [] field = "key" -> [r EXCEPT !.key = CHOOSE k \in Keys : k # r.key]
      [] field = "val" -> [r EXCEPT !.val = IF r.val = BigVal THEN EmptyVal ELSE BigVal]

\* the file has a record whose stored checksum is not that of its body
Mismatch(file) ==
    /\ file.ex
    /\ \E i \in 1..Len(file.recs) :
          file.recs[i].crc # ChecksumIEEE(file.recs[i].seq, file.recs[i].op,
                                          file.recs[i].key, file.recs[i].val)

BadRecord == \E i \in DOMAIN WalFiles : Mismatch(WalFiles[i])

\* one field of one record of one segment changes on the disk
Corrupt ==
    /\ proc = "down"
    /\ ~BadRecord
    /\ \E field \in Fields :
          \/ \E i \in 1..Len(walActive.recs) :
                /\ walActive.ex
                /\ walActive' = [walActive EXCEPT
                                    !.recs[i] = Damaged(walActive.recs[i], field)]
                /\ UNCHANGED walRot
          \/ \E o \in Ordinals : \E i \in 1..Len(walRot[o].recs) :
                /\ walRot[o].ex
                /\ walRot' = [walRot EXCEPT
                                 ![o].recs[i] = Damaged(walRot[o].recs[i], field)]
                /\ UNCHANGED walActive
    /\ UNCHANGED <<stateFile, sst, engine, wr, flushers, history>>

\* one goroutine calls the engine, the process may end at any point between
\* two writes of a file, and a segment may be damaged while it is down
NextCorrupt ==
    \/ NewDB
    \/ nOps < MaxOps /\ \E k \in Keys, v \in Values : Put(1, k, v)
    \/ nOps < MaxOps /\ \E k \in Keys : Delete(1, k)
    \/ Snapshot(1)
    \/ WalWriteClosed(1)
    \/ WalWrite(1)
    \/ MemPut(1)
    \/ NoFlush(1)
    \/ FlushCoalesced(1)
    \/ FlushRotate(1)
    \/ \E f \in flushers : FlushStart(f)
    \/ \E f \in flushers : FlushWrite(f)
    \/ \E f \in flushers : FlushCommit(f)
    \/ Close
    \/ Crash
    \/ \E f \in flushers : FlushRemoveCrash(f)
    \/ Corrupt

SpecCorrupt == Init /\ [][NextCorrupt]_vars

(***************************************************************************)
(* The SSTable writer and reader on their own: the flush goroutine of an   *)
(* engine whose immutable MemTable holds any records.                      *)
(***************************************************************************)
\* the sequence numbers of the records: small ones, and one above MaxInt64
SSTSeqNums == {1, 2, MaxInt64 + 1}

SSTCandidates ==
    {[key |-> InternalKey(k, s, OpTypePut), value |-> v] :
        k \in Keys, s \in SSTSeqNums, v \in {EmptyVal, BigVal}}
        \cup {[key |-> InternalKey(k, s, OpTypeDelete), value |-> NilVal] :
                 k \in Keys, s \in SSTSeqNums}

\* the contents a skip list can have: no two keys that Compare holds equal
SSTInputs ==
    {d \in SUBSET SSTCandidates :
        /\ Cardinality(d) >= 1
        /\ Cardinality(d) <= MaxRecords
        /\ \A e, f \in d : Compare(e.key, f.key) = 0 => e = f}

\* the MemTable after a Put of every record
RECURSIVE Filled(_, _)
Filled(m, data) ==
    IF data = {} THEN m
    ELSE LET d == CHOOSE x \in data : TRUE
         IN  Filled(MemTablePut(m, d.key, d.value), data \ {d})

InitSST ==
    /\ stateFile = 1
    /\ walActive = EmptyFile
    /\ walRot = [i \in Ordinals |-> IF i = 1 THEN EmptyFile ELSE NoFile]
    /\ sst = [i \in Ordinals |-> NoSST]
    /\ proc = "up"
    /\ openErr = FALSE
    /\ \E d \in SSTInputs :
          mt = [g \in Gens |-> IF g = 0 THEN Filled(NewMemTable, d) ELSE NewMemTable]
    /\ gen = 1
    /\ walClosed = FALSE
    /\ immGen = 0
    /\ ssTableCounter = 1
    /\ sequenceNum = 0
    /\ wr = [w \in Writers |-> IdleWriter]
    /\ flushers = {[pc |-> "start", imm |-> 0, wal |-> 1, ord |-> 0, snap |-> {}]}
    /\ nOps = 0
    /\ hiSeq = 0
    /\ last = [k \in Keys |-> NoWrite]
    /\ everDel = FALSE
    /\ pre = PreNone

NextSST ==
    \/ \E f \in flushers : FlushStart(f)
    \/ \E f \in flushers : FlushWrite(f)

SpecSST == InitSST /\ [][NextSST]_vars

(***************************************************************************)
(* The bulk load of main: one goroutine puts distinct keys one after the   *)
(* other into an empty directory and nothing ends the process.  The 1000   *)
(* records of 16 bytes, 257 of which take a MemTable over the threshold,   *)
(* are scaled to BulkPuts records of which each one does; the records     *)
(* after the last of them are scaled to BulkTail short records.           *)
(***************************************************************************)
BulkKeys == 1..(BulkPuts + BulkTail)

\* the value main puts for the key
BulkValue(k) == IF k <= BulkPuts THEN BigVal ELSE EmptyVal

InitBulk ==
    /\ stateFile = NoState
    /\ walActive = NoFile
    /\ walRot = [i \in Ordinals |-> NoFile]
    /\ sst = [i \in Ordinals |-> NoSST]
    /\ proc = "down"
    /\ openErr = FALSE
    /\ mt = [g \in Gens |-> NewMemTable]
    /\ gen = 0
    /\ walClosed = FALSE
    /\ immGen = NoGen
    /\ ssTableCounter = 0
    /\ sequenceNum = 0
    /\ wr = [w \in Writers |-> IdleWriter]
    /\ flushers = {}
    /\ nOps = 0
    /\ hiSeq = 0
    /\ last = [k \in BulkKeys |-> NoWrite]
    /\ everDel = FALSE
    /\ pre = PreNone

NextBulk ==
    \/ nOps = 0 /\ NewDB
    \/ nOps < BulkPuts + BulkTail /\ Put(1, nOps + 1, BulkValue(nOps + 1))
    \/ Snapshot(1)
    \/ WalWrite(1)
    \/ MemPut(1)
    \/ NoFlush(1)
    \/ FlushCoalesced(1)
    \/ FlushRotate(1)
    \/ \E f \in flushers : FlushStart(f)
    \/ \E f \in flushers : FlushWrite(f)
    \/ \E f \in flushers : FlushCommit(f)

SpecBulk == InitBulk /\ [][NextBulk]_vars

(***************************************************************************)
(* Properties of the engine.                                               *)
(***************************************************************************)
\* a Put or Delete of the key has been called and has not returned
InFlight(k) == \E w \in Writers : wr[w].pc # "idle" /\ wr[w].key = k

\* what Get is to return for the last write of the key that returned nil
Expected(k) ==
    IF last[k].st = "put" THEN [val |-> last[k].val, found |-> TRUE] ELSE NotFound

\* the key has a last returned write that no concurrent write and no crash
\* during a write has put in doubt
Settled(k) == last[k].st \in {"put", "del"} /\ ~InFlight(k)

\* NewDB returns: an engine, or an error
Reopened == proc = "down" /\ (proc' = "up" \/ (openErr' /\ ~openErr))

\* C1 (read-your-writes): while no Delete has been called, Get of a key
\* returns found with the value of the last Put of the key that returned, and
\* not-found for a key never put, across rotations, flushes and reopenings.
ReadYourWrites ==
    (proc = "up" /\ ~everDel) =>
        \A k \in Keys : \A fp \in BOOLEAN :
            /\ Settled(k) => GetFP(k, fp) = [val |-> last[k].val, found |-> TRUE]
            /\ (last[k].st = "none" /\ ~InFlight(k)) => GetFP(k, fp) = NotFound

\* C2 (durability): when NewDB returns an engine for the directory that the
\* end of a process left, Get of every key whose last Put or Delete had
\* returned reflects that write.
Durability ==
    [][(proc = "down" /\ proc' = "up") =>
          \A k \in Keys : Settled(k) => Get(k)' = Expected(k)]_vars

\* C3 (delete visibility): after Delete of a key has returned, and until a
\* later Put of it, Get of the key returns not-found.
DeleteVisibility ==
    proc = "up" =>
        \A k \in Keys : \A fp \in BOOLEAN :
            (Settled(k) /\ last[k].st = "del") => GetFP(k, fp) = NotFound

\* the versions of a key in a MemTable, each with the verdict Get draws from it
MemVersions(m, k) ==
    {[seq |-> e.key.SeqNum,
      verdict |-> IF e.key.Type = OpTypeDelete THEN NotFound
                  ELSE Verdict([val |-> e.value, found |-> TRUE])] :
        e \in {x \in m.data : x.key.UserKey = k}}

\* the versions of a key in an SSTable
SSTVersions(file, k) ==
    UNION {{[seq |-> GobDecode(file.blocks[b][i].kb).SeqNum,
             verdict |-> IF GobDecode(file.blocks[b][i].kb).Type = OpTypeDelete
                         THEN NotFound
                         ELSE [val |-> file.blocks[b][i].val, found |-> TRUE]] :
               i \in {j \in 1..Len(file.blocks[b]) :
                         GobDecode(file.blocks[b][j].kb).UserKey = k}} :
           b \in 1..Len(file.blocks)}

\* the versions of a key in the active MemTable, the immutable MemTable and
\* the SSTables of an ordinal below db.ssTableCounter
Versions(k) ==
    MemVersions(mt[gen], k)
        \cup (IF immGen # NoGen THEN MemVersions(mt[immGen], k) ELSE {})
        \cup UNION {SSTVersions(sst[i], k) :
                       i \in {j \in Ordinals : j < ssTableCounter /\ ReaderOpens(sst[j])}}

\* C4 (most recent version wins): in every state Get of a key returns the
\* verdict of the version of the highest sequence number among the versions
\* in the active MemTable, the immutable MemTable and the SSTables.
MostRecentWins ==
    proc = "up" =>
        \A k \in Keys :
            IF Versions(k) = {} THEN Get(k) = NotFound
            ELSE \E v \in Versions(k) :
                    /\ \A u \in Versions(k) : u.seq <= v.seq
                    /\ Get(k) = v.verdict

\* the sequence numbers of the records in the WAL segments of the directory
WalSeqs ==
    {walActive.recs[i].seq : i \in 1..Len(walActive.recs)}
        \cup UNION {{walRot[o].recs[i].seq : i \in 1..Len(walRot[o].recs)} : o \in Ordinals}

\* the sequence numbers of the records in the complete SSTables of the directory
SSTSeqs ==
    UNION {UNION {{GobDecode(sst[o].blocks[b][i].kb).SeqNum :
                      i \in 1..Len(sst[o].blocks[b])} : b \in 1..Len(sst[o].blocks)} :
           o \in {j \in Ordinals : ReaderOpens(sst[j])}}

\* C5 (monotone sequence): over the lifetime of the directory, reopenings
\* included, every sequence number Put or Delete assigns is greater than
\* every one assigned before; in particular it is greater than every one that
\* an earlier Put or Delete left in a WAL segment or in an SSTable.
MonotoneSequence ==
    [][\A w \in Writers :
          (wr[w].pc = "idle" /\ wr'[w].pc = "seq") =>
              \A q \in WalSeqs \cup SSTSeqs : wr'[w].seq > q]_vars

\* C6 (crash during put): after the process ends inside a Put whose record
\* is not yet or only partly in the WAL, NewDB returns an engine, and every
\* key but those being written reads as before.
CrashDuringPut ==
    [][(pre.kind = "crash" /\ Reopened) =>
          /\ proc' = "up"
          /\ \A k \in Keys \ pre.busy : Get(k)' = pre.get[k]]_vars

\* C8 (close/reopen round trip): NewDB on the directory of an engine closed
\* with no write and no flush in progress returns an engine whose Get equals,
\* for every key, the Get before Close.
CloseReopenRoundTrip ==
    [][(pre.kind = "close" /\ Reopened) =>
          /\ proc' = "up"
          /\ \A k \in Keys : Get(k)' = pre.get[k]]_vars

\* at most one flush goroutine, and the MemTable it writes is the one in
\* db.immutableMem
OneImmutable ==
    /\ Cardinality(flushers) <= 1
    /\ \A f \in flushers : f.imm = immGen
    /\ immGen # NoGen => proc = "up"

\* a writer returns from flushMemtable, called over the threshold while
\* db.immutableMem is set
CoalescedStep ==
    /\ proc' = "up"
    /\ immGen # NoGen
    /\ \E w \in Writers :
          /\ wr[w].pc = "put"
          /\ wr'[w].pc = "idle"
          /\ ApproximateSize(mt[wr[w].h]) > MemTableSizeThreshold

\* C7 (flush coalescing): under every interleaving of the writers there is at
\* most one immutable MemTable and at most one flush goroutine, and a call of
\* flushMemtable that finds db.immutableMem set changes neither db.mem nor
\* db.wal nor any file.
FlushCoalescing ==
    /\ []OneImmutable
    /\ [][CoalescedStep =>
             UNCHANGED <<gen, mt, immGen, walClosed, flushers, disk>>]_vars

\* a writer has found the active MemTable over the threshold while the flush
\* of the immutable one was under way, and has returned
CoalescedFlush ==
    /\ proc = "up"
    /\ immGen # NoGen
    /\ flushers # {}
    /\ ApproximateSize(mt[gen]) > MemTableSizeThreshold
    /\ \A w \in Writers : wr[w].pc = "idle"

\* the answer of the reader for the newest of the versions vs of a key
NewestVerdict(vs) ==
    LET e == CHOOSE x \in vs : \A y \in vs : y.key.SeqNum <= x.key.SeqNum
    IN  IF e.key.Type = OpTypeDelete THEN [val |-> NilVal, found |-> TRUE]
        ELSE [val |-> Bytes(e.value), found |-> TRUE]

\* C9 (SSTable round trip): for the records WriteSSTable has written, in one
\* or in several data blocks, SSTableReader.Get of a user key returns found
\* with the value and the operation type of the version of the highest
\* sequence number, and not found for a user key that was not written.
SSTableRoundTrip ==
    \A f \in flushers :
        f.pc = "written" =>
            \A k \in Keys : \A fp \in BOOLEAN :
                LET vs == {e \in mt[f.imm].data : e.key.UserKey = k}
                    got == SSTableReaderGet(sst[f.ord], k, fp)
                IN  IF vs = {} THEN ~got.found ELSE got = NewestVerdict(vs)

\* C10 (WAL corruption is fatal): Replay of a segment with a record whose
\* stored checksum differs from that of its body returns an error and no
\* mapping, and NewDB on a directory with such a segment returns the error,
\* no engine, and leaves every file as it was.
WalCorruptionFatal ==
    /\ [](\A i \in DOMAIN WalFiles :
             Mismatch(WalFiles[i]) =>
                 Replay(WalFiles[i]) = [err |-> TRUE, data |-> {}, maxSeq |-> 0])
    /\ [][(proc = "down" /\ BadRecord) =>
             (proc' = "down" /\ openErr' /\ disk' = disk)]_vars

\* NewDB has returned the error for a directory with a damaged segment
CorruptionRejected == proc = "down" /\ openErr /\ BadRecord /\ stateFile # TornState

\* every Put of the bulk load has returned and no flush goroutine runs
BulkDone ==
    /\ proc = "up"
    /\ nOps = BulkPuts + BulkTail
    /\ wr[1].pc = "idle"
    /\ flushers = {}

CompleteSSTs == {o \in Ordinals : ReaderOpens(sst[o])}

WritePathErrors ==
    [][\A w \in Writers :
          /\ (wr[w].pc = "snap" /\ wr'[w].pc = "idle" /\ proc' = "up") =>
                UNCHANGED <<mt, gen, immGen, ssTableCounter, flushers, last>>
          /\ (wr[w].pc # "logged" /\ wr'[w].pc = "logged") =>
                walActive'.recs = Append(walActive.recs, WalRecord(Entry(w)))
          /\ (wr[w].pc # "put" /\ wr'[w].pc = "put") => wr[w].pc = "logged"
          /\ (wr[w].pc \notin {"idle", "snap"} /\ wr'[w].pc = "idle" /\ proc' = "up") =>
                wr[w].pc = "put"]_vars

\* a Put or Delete has returned the error of wal.Write after db.Close: it
\* has taken a sequence number, and no MemTable of the process, in which no
\* rotation has taken place, has an entry
WriteFailed ==
    /\ proc = "up"
    /\ walClosed
    /\ \A w \in Writers : wr[w].pc = "idle"
    /\ sequenceNum > 0
    /\ gen = 0
    /\ mt[0].data = {}

\* the newest version of the key in the MemTable is a PUT of a value of
\* length 0
EmptyPutInMem(m, k) ==
    \E e \in m.data :
        /\ e.key.UserKey = k
        /\ \A f \in m.data : f.key.UserKey = k => f.key.SeqNum <= e.key.SeqNum
        /\ e.key.Type = OpTypePut
        /\ ByteLen(e.value) = 0

\* C13 (empty values are values): after a Put of a value of length 0, nil or
\* empty, has returned, Get of the key returns found with the empty value,
\* and a MemTable whose newest version of a key is such a PUT answers as an
\* SSTable and a replayed WAL do: found, not deleted.
EmptyValuesAreValues ==
    proc = "up" =>
        \A k \in Keys :
            /\ (Settled(k) /\ last[k] = [st |-> "put", val |-> EmptyVal]
                    /\ EmptyPutInMem(mt[gen], k)) =>
                  Get(k) = [val |-> EmptyVal, found |-> TRUE]
            /\ (~InFlight(k) /\ EmptyPutInMem(mt[gen], k)) =>
                  Verdict(MemTableGet(mt[gen], k)).found
            /\ (~InFlight(k) /\ immGen # NoGen /\ EmptyPutInMem(mt[immGen], k)) =>
                  Verdict(MemTableGet(mt[immGen], k)).found

\* the internal keys of the records of an SSTable
SSTKeys(file) ==
    UNION {{GobDecode(file.blocks[b][i].kb) : i \in 1..Len(file.blocks[b])} :
           b \in 1..Len(file.blocks)}

\* the internal keys of the records of a WAL segment
WalKeys(file) ==
    {InternalKey(file.recs[i].key, file.recs[i].seq, file.recs[i].op) :
        i \in 1..Len(file.recs)}

\* C14 (the immutable MemTable is read-only): no entry is inserted into a
\* MemTable while it is db.immutableMem, and the SSTable the flush goroutine
\* has written holds every entry of that MemTable and every record of the
\* rotated WAL segment.
ImmutableReadOnly ==
    /\ [][(proc' = "up" /\ immGen # NoGen /\ immGen' = immGen) =>
             mt'[immGen].data = mt[immGen].data]_vars
    /\ [](\A f \in flushers :
             f.pc = "written" =>
                 /\ {e.key : e \in mt[f.imm].data} \subseteq SSTKeys(sst[f.ord])
                 /\ WalKeys(walRot[f.wal]) \subseteq SSTKeys(sst[f.ord]))

\* the tiers Get reads, oldest first: the SSTables by ordinal, then the
\* immutable MemTable, then the active MemTable
ImmTier == MaxOrd + 1
MemTier == MaxOrd + 2
Tiers == Ordinals \cup {ImmTier, MemTier}

\* the sequence numbers of the versions of a key in a tier
TierSeqs(t, k) ==
    {v.seq :
        v \in IF t = MemTier THEN MemVersions(mt[gen], k)
              ELSE IF t = ImmTier
                   THEN (IF immGen # NoGen THEN MemVersions(mt[immGen], k) ELSE {})
              ELSE IF t < ssTableCounter /\ ReaderOpens(sst[t])
                   THEN SSTVersions(sst[t], k)
              ELSE {}}

\* C15 (tier order agrees with sequence order): in every state and for
\* every key, no version held in a newer tier has a lower sequence number
\* than a version of that key held in an older tier.
TierOrder ==
    proc = "up" =>
        \A k \in Keys : \A old \in Tiers : \A new \in Tiers :
            old < new =>
                \A u \in TierSeqs(old, k) : \A v \in TierSeqs(new, k) : u <= v

\* C16 (the counter follows the SSTable): in every state of a running
\* engine each ordinal in 1..db.ssTableCounter - 1 names a complete SSTable
\* file.
CounterAfterWrite ==
    proc = "up" =>
        \A o \in Ordinals : o < ssTableCounter => ReaderOpens(sst[o])

\* the internal keys held, after a step, by the complete SSTables of an
\* ordinal below the counter saved in state.json
DurableSSTKeys ==
    UNION {SSTKeys(sst'[p]) :
              p \in {q \in Ordinals : q < stateFile' /\ ReaderOpens(sst'[q])}}

\* the internal keys held, after a step, by the WAL segments of the directory
DurableWalKeys ==
    WalKeys(walActive') \cup
        UNION {WalKeys(walRot'[q]) : q \in {p \in Ordinals : walRot'[p].ex}}

\* C17 (a rotated WAL segment outlives its records' flush): whenever the
\* running engine removes a rotated WAL segment, each of its records is in
\* a complete SSTable of an ordinal below the counter saved in state.json
\* or in another WAL segment.
WalRemovedAfterFlush ==
    [][\A o \in Ordinals :
          (proc' = "up" /\ walRot[o].ex /\ ~walRot'[o].ex) =>
              WalKeys(walRot[o]) \subseteq DurableSSTKeys \cup DurableWalKeys]_vars

\* C18 (rotation destroys no durable data): the rename of db.wal to
\* wal-<counter>.log never targets a path at which a rotated segment
\* exists, and the flush goroutine never creates <counter>.sst over a
\* complete SSTable.
RotationPreservesData ==
    [][/\ gen' = gen + 1 => ~walRot[ssTableCounter].ex
       /\ (proc = "up" /\ proc' = "up" /\ ssTableCounter' = ssTableCounter + 1) =>
              ~ReaderOpens(sst[ssTableCounter])]_vars

\* C19 (the rotated WAL segment and its SSTable share the ordinal): for
\* every flush goroutine that has named its SSTable, the ordinal of NNNNN.sst
\* is the ordinal of the wal-NNNNN.log renamed at the rotation.
SharedOrdinal ==
    \A f \in flushers : f.pc # "start" => f.ord = f.wal

\* a second flush has written its SSTable under the ordinal of its rotated
\* WAL segment, which is still in the directory
SecondFlushWritten ==
    \E f \in flushers :
        /\ f.pc = "written"
        /\ f.wal = 2
        /\ f.ord = f.wal
        /\ ReaderOpens(sst[f.ord])
        /\ walRot[f.wal].ex

(***************************************************************************)
(* The accesses to the fields db.mu protects.                              *)
(***************************************************************************)
\* an access a goroutine is about to make: the field, whether it writes it,
\* and how it holds db.mu then ("w" Lock, "r" RLock, "none")
Access(thread, field, write, latch) ==
    [thread |-> thread, field |-> field, write |-> write, latch |-> latch]

\* Put and Delete: the snapshot under RLock, then flushMemtable under Lock
WriterAccesses(w) ==
    LET t == <<"writer", w>> IN
    IF wr[w].pc = "seq"
    THEN {Access(t, "wal", FALSE, "r"), Access(t, "mem", FALSE, "r")}
    ELSE IF wr[w].pc = "put" /\ OverThreshold(w)
    THEN IF ImmutablePending
         THEN {Access(t, "immutableMem", FALSE, "w")}
         ELSE {Access(t, "immutableMem", FALSE, "w"),
               Access(t, "wal", FALSE, "w"),
               Access(t, "ssTableCounter", FALSE, "w"),
               Access(t, "wal", TRUE, "w"),
               Access(t, "mem", FALSE, "w"),
               Access(t, "immutableMem", TRUE, "w"),
               Access(t, "mem", TRUE, "w")}
    ELSE {}

\* the goroutine of flushMemtable: the counter with no latch, the commit
\* under Lock
FlusherAccesses(f) ==
    LET t == <<"flusher", f.wal>> IN
    IF f.pc = "start"
    THEN {Access(t, "ssTableCounter", FALSE, "none"),
          Access(t, "ssTableCounter", TRUE, "none")}
    ELSE IF f.pc = "written"
    THEN {Access(t, "immutableMem", TRUE, "w"),
          Access(t, "ssTableCounter", FALSE, "w")}
    ELSE {}

\* a goroutine calling Get: the three fields under RLock, then
\* db.ssTableCounter again in the loop over the SSTables
GetAccesses ==
    LET t == <<"get", 0>> IN
    {Access(t, "mem", FALSE, "r"),
     Access(t, "immutableMem", FALSE, "r"),
     Access(t, "ssTableCounter", FALSE, "r"),
     Access(t, "ssTableCounter", FALSE, "none")}

\* a goroutine calling Close: db.wal with no latch
CloseAccesses ==
    IF walClosed THEN {} ELSE {Access(<<"close", 0>>, "wal", FALSE, "none")}

\* the accesses the goroutines of a running engine are about to make
Accesses ==
    IF proc # "up" THEN {}
    ELSE UNION {WriterAccesses(w) : w \in Writers}
            \cup UNION {FlusherAccesses(f) : f \in flushers}
            \cup GetAccesses \cup CloseAccesses

\* db.mu keeps two accesses apart when both hold it and one holds it for
\* writing
Excluded(a, b) ==
    /\ a.latch # "none"
    /\ b.latch # "none"
    /\ a.latch = "w" \/ b.latch = "w"

\* C20 (latch discipline): no two goroutines are about to access the same
\* one of db.mem, db.immutableMem, db.wal and db.ssTableCounter, at least
\* one of them writing it, unless db.mu keeps the two accesses apart.
LatchDiscipline ==
    \A a \in Accesses : \A b \in Accesses :
        (a.thread # b.thread /\ a.field = b.field /\ (a.write \/ b.write)) =>
            Excluded(a, b)

(***************************************************************************)
(* The engine with an SSTable write that fails.                            *)
(***************************************************************************)
\* os.Create in WriteSSTable returns an error: the goroutine has already
\* incremented db.ssTableCounter, logs and returns
FlushCreateFail(f) ==
    /\ f.pc = "start"
    /\ ssTableCounter <= MaxOrd
    /\ ssTableCounter' = ssTableCounter + 1
    /\ flushers' = flushers \ {f}
    /\ UNCHANGED <<disk, proc, openErr, mt, gen, walClosed, immGen, sequenceNum,
                   wr, history>>

\* a write in WriteSSTable returns an error: the file stays incomplete, the
\* goroutine logs and returns
FlushWriteFail(f) ==
    /\ f.pc = "writing"
    /\ flushers' = flushers \ {f}
    /\ UNCHANGED <<disk, engine, wr, history>>

NextFail ==
    \/ NextSeq
    \/ \E f \in flushers : FlushCreateFail(f)
    \/ \E f \in flushers : FlushWriteFail(f)

SpecFail == Init /\ [][NextFail]_vars

\* the goroutine f has returned from a failed WriteSSTable in this step
FlushFails(f) ==
    /\ proc' = "up"
    /\ f.pc \in {"start", "writing"}
    /\ ~\E g \in flushers' : g.wal = f.wal /\ g.imm = f.imm

\* C21 (a failed flush destroys nothing): when WriteSSTable fails, the
\* immutable MemTable stays in db.immutableMem with its entries, the rotated
\* WAL segment stays in the directory, state.json is not rewritten, and Get
\* returns for every key what it returned before; opening the SSTable file
\* for the attempt does not change what Get returns either.
FlushFailureKeeps ==
    [][\A f \in flushers :
          /\ FlushFails(f) =>
                /\ immGen # NoGen
                /\ immGen' = immGen
                /\ mt'[immGen] = mt[immGen]
                /\ walRot[f.wal].ex
                /\ walRot'[f.wal] = walRot[f.wal]
                /\ stateFile' = stateFile
                /\ \A k \in Keys : Get(k)' = Get(k)
          /\ (proc' = "up" /\ f.pc = "start" /\ f \notin flushers') =>
                \A k \in Keys : Get(k)' = Get(k)]_vars

(***************************************************************************)
(* One goroutine calls the engine in a process that keeps running; no step *)
(* of a flush fails and the goroutine of flushMemtable is scheduled fairly. *)
(***************************************************************************)
NextLive ==
    \/ nOps = 0 /\ NewDB
    \/ nOps < MaxOps /\ \E k \in Keys, v \in Values : Put(1, k, v)
    \/ nOps < MaxOps /\ \E k \in Keys : Delete(1, k)
    \/ Snapshot(1)
    \/ WalWrite(1)
    \/ MemPut(1)
    \/ NoFlush(1)
    \/ FlushCoalesced(1)
    \/ FlushRotate(1)
    \/ \E f \in flushers : FlushStart(f)
    \/ \E f \in flushers : FlushWrite(f)
    \/ \E f \in flushers : FlushCommit(f)

\* a step of a goroutine of flushMemtable
FlushStep ==
    \E f \in flushers : FlushStart(f) \/ FlushWrite(f) \/ FlushCommit(f)

SpecLive == Init /\ [][NextLive]_vars /\ WF_vars(FlushStep)

\* C22 (a flush completes): whenever a rotation has installed an immutable
\* MemTable and started a goroutine, eventually the goroutine has returned
\* with db.immutableMem nil, state.json holding the incremented counter and
\* no rotated WAL segment left; the step that ends the goroutine clears
\* db.immutableMem, saves the counter o + 1 and removes wal-<o>.log, o being
\* the ordinal of the rotation.
FlushCompletes ==
    /\ (flushers # {}) ~>
           /\ flushers = {}
           /\ immGen = NoGen
           /\ stateFile = ssTableCounter
           /\ stateFile > 1
           /\ \A o \in Ordinals : ~walRot[o].ex
    /\ [][\A f \in flushers :
             (f.pc = "written" /\ f \notin flushers') =>
                 /\ immGen' = NoGen
                 /\ stateFile' = f.wal + 1
                 /\ ~walRot'[f.wal].ex]_vars

\* a flush has completed and a later Put over the threshold has rotated
\* again: the second flush has completed too
SecondFlushCompleted ==
    /\ proc = "up"
    /\ flushers = {}
    /\ immGen = NoGen
    /\ gen = 2
    /\ stateFile = 3
    /\ \A o \in Ordinals : ~walRot[o].ex
    /\ ReaderOpens(sst[1]) /\ ReaderOpens(sst[2])

(***************************************************************************)
(* The latches: db.mu, the mutex of each WAL and the latch of each         *)
(* MemTable.  Every step is one Lock, RLock, Unlock or RUnlock of the      *)
(* code; a goroutine's position tells which latches it holds.  What the    *)
(* critical sections do to the data is in the actions above and left out   *)
(* here; only the branches that decide the next latch are kept.            *)
(***************************************************************************)
\* a goroutine inside a call of Put, Delete, Get or Close: its position, its
\* copy of db.mem and db.wal, its copy of db.immutableMem
Caller(pc, h, imm) == [pc |-> pc, h |-> h, imm |-> imm]

\* the goroutines that hold db.mu by RLock
MuReadersDeferred ==
    {w \in Writers : wr[w].pc \in {"put.rlocked", "put.wal", "put.wal.locked",
                                   "put.mem", "put.mem.locked", "flush.lock",
                                   "get.rlocked"}}

MuReaders == {w \in Writers : wr[w].pc \in {"put.rlocked", "get.rlocked"}}

\* db.mu is held by Lock: flushMemtable before each of its Unlock calls, the
\* goroutine of the flush before its deferred Unlock
MuWriters ==
    {w \in Writers : wr[w].pc \in {"flush.locked", "flush.close", "flush.closing",
                                   "flush.rename"}}
MuLockedByWorker == \E f \in flushers : f.pc = "locked"

\* a goroutine is blocked in db.mu.Lock(): RLock lets no new reader in
MuLockPending ==
    \/ \E w \in Writers : wr[w].pc = "flush.lock"
    \/ \E f \in flushers : f.pc = "lock"

\* db.mu.Lock() can return; db.mu.RLock() can return
MuLockable == MuWriters = {} /\ ~MuLockedByWorker /\ MuReaders = {}
MuRLockable == MuWriters = {} /\ ~MuLockedByWorker /\ ~MuLockPending

\* the mutex of the WAL created with MemTable generation g is held
WalMuHeld(g) ==
    \E w \in Writers :
        \/ wr[w].pc \in {"put.wal.locked", "close.locked"} /\ wr[w].h = g
        \/ wr[w].pc = "flush.closing" /\ gen = g

\* the latch of the MemTable of generation g is held by Lock, by RLock
MemLocked(g) == \E w \in Writers : wr[w].pc = "put.mem.locked" /\ wr[w].h = g
MemRLocked(g) ==
    \E w \in Writers :
        \/ wr[w].pc = "get.mem.rlocked" /\ wr[w].h = g
        \/ wr[w].pc = "get.imm.rlocked" /\ wr[w].imm = g

\* the WAL of generation g has been closed
WalIsClosed(g) == g < gen \/ walClosed

At(w, pc) == proc = "up" /\ wr[w].pc = pc
Goto(w, pc) ==
    wr' = [wr EXCEPT ![w] = IF pc = "idle" THEN IdleWriter
                            ELSE Caller(pc, wr[w].h, wr[w].imm)]
Engine == <<disk, proc, openErr, mt, ssTableCounter, sequenceNum, history>>

\* Put and Delete, which take the same latches
PutCall(w) ==
    /\ At(w, "idle")
    /\ wr' = [wr EXCEPT ![w] = Caller("put.rlock", 0, NoGen)]
    /\ UNCHANGED <<Engine, gen, immGen, walClosed, flushers>>

\* db.mu.RLock(); wal := db.wal; memTable := db.mem
PutRLock(w) ==
    /\ At(w, "put.rlock")
    /\ MuRLockable
    /\ wr' = [wr EXCEPT ![w] = Caller("put.rlocked", gen, NoGen)]
    /\ UNCHANGED <<Engine, gen, immGen, walClosed, flushers>>

\* db.mu.RUnlock()
PutRUnlock(w) ==
    /\ At(w, "put.rlocked")
    /\ Goto(w, "put.wal")
    /\ UNCHANGED <<Engine, gen, immGen, walClosed, flushers>>

\* wal.Write: w.mu.Lock()
WalLock(w) ==
    /\ At(w, "put.wal")
    /\ ~WalMuHeld(wr[w].h)
    /\ Goto(w, "put.wal.locked")
    /\ UNCHANGED <<Engine, gen, immGen, walClosed, flushers>>

\* wal.Write returns (defer w.mu.Unlock()); Put returns its error
WalUnlock(w) ==
    /\ At(w, "put.wal.locked")
    /\ Goto(w, IF WalIsClosed(wr[w].h) THEN "idle" ELSE "put.mem")
    /\ UNCHANGED <<Engine, gen, immGen, walClosed, flushers>>

\* memTable.Put: m.mu.Lock()
MemLock(w) ==
    /\ At(w, "put.mem")
    /\ ~MemLocked(wr[w].h) /\ ~MemRLocked(wr[w].h)
    /\ Goto(w, "put.mem.locked")
    /\ UNCHANGED <<Engine, gen, immGen, walClosed, flushers>>

\* memTable.Put returns (defer m.mu.Unlock()); ApproximateSize takes no
\* latch; Put returns or calls flushMemtable
MemUnlock(w) ==
    /\ At(w, "put.mem.locked")
    /\ \/ Goto(w, "idle")
       \/ Goto(w, "flush.lock")
    /\ UNCHANGED <<Engine, gen, immGen, walClosed, flushers>>

\* flushMemtable: db.mu.Lock()
FlushLock(w) ==
    /\ At(w, "flush.lock")
    /\ MuLockable
    /\ Goto(w, "flush.locked")
    /\ UNCHANGED <<Engine, gen, immGen, walClosed, flushers>>

\* if db.immutableMem != nil { db.mu.Unlock(); return }
FlushGuard(w) ==
    /\ At(w, "flush.locked")
    /\ Goto(w, IF immGen # NoGen THEN "idle" ELSE "flush.close")
    /\ UNCHANGED <<Engine, gen, immGen, walClosed, flushers>>

\* db.wal.Close(): w.mu.Lock(), with db.mu held
FlushCloseLock(w) ==
    /\ At(w, "flush.close")
    /\ ~WalMuHeld(gen)
    /\ Goto(w, "flush.closing")
    /\ UNCHANGED <<Engine, gen, immGen, walClosed, flushers>>

\* db.wal.Close() returns (defer w.mu.Unlock())
FlushCloseUnlock(w) ==
    /\ At(w, "flush.closing")
    /\ walClosed' = TRUE
    /\ Goto(w, "flush.rename")
    /\ UNCHANGED <<Engine, gen, immGen, flushers>>

\* os.Rename or NewWal fails: db.mu.Unlock(); return
FlushRotateFail(w) ==
    /\ At(w, "flush.rename")
    /\ Goto(w, "idle")
    /\ UNCHANGED <<Engine, gen, immGen, walClosed, flushers>>

\* db.wal = newWal; db.immutableMem = db.mem; db.mem = NewMemTable();
\* db.mu.Unlock(); go func
FlushRotated(w) ==
    /\ At(w, "flush.rename")
    /\ gen < OpsBound
    /\ gen' = gen + 1
    /\ immGen' = gen
    /\ walClosed' = FALSE
    /\ flushers' = flushers \cup
                      {[pc |-> "write", imm |-> gen, wal |-> 0, ord |-> 0, snap |-> {}]}
    /\ Goto(w, "idle")
    /\ UNCHANGED Engine

\* Get
GetCall(w) ==
    /\ At(w, "idle")
    /\ wr' = [wr EXCEPT ![w] = Caller("get.rlock", 0, NoGen)]
    /\ UNCHANGED <<Engine, gen, immGen, walClosed, flushers>>

\* db.mu.RLock(); mem := db.mem; imm := db.immutableMem
GetRLock(w) ==
    /\ At(w, "get.rlock")
    /\ MuRLockable
    /\ wr' = [wr EXCEPT ![w] = Caller("get.rlocked", gen, immGen)]
    /\ UNCHANGED <<Engine, gen, immGen, walClosed, flushers>>

\* db.mu.RUnlock()
GetRUnlock(w) ==
    /\ At(w, "get.rlocked")
    /\ Goto(w, "get.mem")
    /\ UNCHANGED <<Engine, gen, immGen, walClosed, flushers>>

\* mem.Get: m.mu.RLock()
GetMemRLock(w) ==
    /\ At(w, "get.mem")
    /\ ~MemLocked(wr[w].h)
    /\ Goto(w, "get.mem.rlocked")
    /\ UNCHANGED <<Engine, gen, immGen, walClosed, flushers>>

\* mem.Get returns (defer m.mu.RUnlock()): found, or on to imm, or on to
\* the SSTables
GetMemRUnlock(w) ==
    /\ At(w, "get.mem.rlocked")
    /\ \/ Goto(w, "idle")
       \/ Goto(w, IF wr[w].imm # NoGen THEN "get.imm" ELSE "get.sst")
    /\ UNCHANGED <<Engine, gen, immGen, walClosed, flushers>>

\* imm.Get: m.mu.RLock()
GetImmRLock(w) ==
    /\ At(w, "get.imm")
    /\ ~MemLocked(wr[w].imm)
    /\ Goto(w, "get.imm.rlocked")
    /\ UNCHANGED <<Engine, gen, immGen, walClosed, flushers>>

\* imm.Get returns (defer m.mu.RUnlock()): found, or on to the SSTables
GetImmRUnlock(w) ==
    /\ At(w, "get.imm.rlocked")
    /\ \/ Goto(w, "idle")
       \/ Goto(w, "get.sst")
    /\ UNCHANGED <<Engine, gen, immGen, walClosed, flushers>>

\* the loop over the SSTables takes no latch; Get returns
GetSSTables(w) ==
    /\ At(w, "get.sst")
    /\ Goto(w, "idle")
    /\ UNCHANGED <<Engine, gen, immGen, walClosed, flushers>>

\* Close: db.wal.Close() on the WAL db.wal names now
CloseCall(w) ==
    /\ At(w, "idle")
    /\ wr' = [wr EXCEPT ![w] = Caller("close.lock", gen, NoGen)]
    /\ UNCHANGED <<Engine, gen, immGen, walClosed, flushers>>

\* w.mu.Lock()
CloseLock(w) ==
    /\ At(w, "close.lock")
    /\ ~WalMuHeld(wr[w].h)
    /\ Goto(w, "close.locked")
    /\ UNCHANGED <<Engine, gen, immGen, walClosed, flushers>>

\* db.wal.Close() returns (defer w.mu.Unlock())
CloseUnlock(w) ==
    /\ At(w, "close.locked")
    /\ walClosed' = (walClosed \/ wr[w].h = gen)
    /\ Goto(w, "idle")
    /\ UNCHANGED <<Engine, gen, immGen, flushers>>

\* the goroutine of the flush: WriteSSTable returns nil, no latch taken
WorkerWritten(f) ==
    /\ proc = "up"
    /\ f.pc = "write"
    /\ flushers' = Step(f, [f EXCEPT !.pc = "lock"])
    /\ UNCHANGED <<Engine, gen, immGen, walClosed, wr>>

\* WriteSSTable returns an error: the goroutine returns
WorkerFailed(f) ==
    /\ proc = "up"
    /\ f.pc = "write"
    /\ flushers' = flushers \ {f}
    /\ UNCHANGED <<Engine, gen, immGen, walClosed, wr>>

\* db.mu.Lock(); defer db.mu.Unlock()
WorkerLock(f) ==
    /\ proc = "up"
    /\ f.pc = "lock"
    /\ MuLockable
    /\ flushers' = Step(f, [f EXCEPT !.pc = "locked"])
    /\ UNCHANGED <<Engine, gen, immGen, walClosed, wr>>

\* db.immutableMem = nil; saveState; os.Remove; return (db.mu.Unlock())
WorkerUnlock(f) ==
    /\ proc = "up"
    /\ f.pc = "locked"
    /\ immGen' = NoGen
    /\ flushers' = flushers \ {f}
    /\ UNCHANGED <<Engine, gen, walClosed, wr>>

\* a step of goroutine w inside a call
CallerStep(w) ==
    \/ PutRLock(w) \/ PutRUnlock(w) \/ WalLock(w) \/ WalUnlock(w)
    \/ MemLock(w) \/ MemUnlock(w)
    \/ FlushLock(w) \/ FlushGuard(w) \/ FlushCloseLock(w) \/ FlushCloseUnlock(w)
    \/ FlushRotateFail(w) \/ FlushRotated(w)
    \/ GetRLock(w) \/ GetRUnlock(w) \/ GetMemRLock(w) \/ GetMemRUnlock(w)
    \/ GetImmRLock(w) \/ GetImmRUnlock(w) \/ GetSSTables(w)
    \/ CloseLock(w) \/ CloseUnlock(w)

\* a step of the goroutine of the flush
WorkerStep ==
    \E f \in flushers :
        WorkerWritten(f) \/ WorkerFailed(f) \/ WorkerLock(f) \/ WorkerUnlock(f)

NextLatch ==
    \/ NewDB
    \/ \E w \in Writers : PutCall(w)
    \/ \E w \in Writers : GetCall(w)
    \/ \E w \in Writers : CloseCall(w)
    \/ \E w \in Writers : PutRLock(w)
    \/ \E w \in Writers : PutRUnlock(w)
    \/ \E w \in Writers : WalLock(w)
    \/ \E w \in Writers : WalUnlock(w)
    \/ \E w \in Writers : MemLock(w)
    \/ \E w \in Writers : MemUnlock(w)
    \/ \E w \in Writers : FlushLock(w)
    \/ \E w \in Writers : FlushGuard(w)
    \/ \E w \in Writers : FlushCloseLock(w)
    \/ \E w \in Writers : FlushCloseUnlock(w)
    \/ \E w \in Writers : FlushRotateFail(w)
    \/ \E w \in Writers : FlushRotated(w)
    \/ \E w \in Writers : GetRLock(w)
    \/ \E w \in Writers : GetRUnlock(w)
    \/ \E w \in Writers : GetMemRLock(w)
    \/ \E w \in Writers : GetMemRUnlock(w)
    \/ \E w \in Writers : GetImmRLock(w)
    \/ \E w \in Writers : GetImmRUnlock(w)
    \/ \E w \in Writers : GetSSTables(w)
    \/ \E w \in Writers : CloseLock(w)
    \/ \E w \in Writers : CloseUnlock(w)
    \/ \E f \in flushers : WorkerWritten(f)
    \/ \E f \in flushers : WorkerFailed(f)
    \/ \E f \in flushers : WorkerLock(f)
    \/ \E f \in flushers : WorkerUnlock(f)

\* the Go scheduler runs every goroutine, and a goroutine blocked on a
\* sync.Mutex or sync.RWMutex gets it once it is free often enough
\* (starvation mode of sync.Mutex, writer preference of sync.RWMutex)
SpecLatch ==
    /\ Init
    /\ [][NextLatch]_vars
    /\ \A w \in Writers : SF_vars(CallerStep(w))
    /\ SF_vars(WorkerStep)

\* C23 (no deadlock): whenever a goroutine is inside Put, Delete, Get,
\* Close or the flush, some goroutine can take a step; every call
\* eventually returns and the goroutine of the flush eventually returns.
NoDeadlock ==
    /\ []((\E w \in Writers : wr[w].pc # "idle") =>
             \E w \in Writers : ENABLED CallerStep(w) \/ ENABLED WorkerStep)
    /\ [](flushers # {} => \E w \in Writers : ENABLED CallerStep(w) \/ ENABLED WorkerStep)
    /\ \A w \in Writers : (wr[w].pc # "idle") ~> (wr[w].pc = "idle")
    /\ (flushers # {}) ~> (flushers = {})

\* after a rotation, a Put in flushMemtable holds db.mu and is about to
\* lock the mutex of the WAL while the other goroutine holds that mutex
\* inside wal.Write
LatchesContended ==
    /\ proc = "up"
    /\ \E w \in Writers : wr[w].pc = "flush.close"
    /\ \E w \in Writers : wr[w].pc = "put.wal.locked" /\ wr[w].h = gen
    /\ gen > 0

\* the internal keys of the records in the WAL segments of the directory
\* and in the complete SSTables
LoggedKeys ==
    WalKeys(walActive)
        \cup UNION {WalKeys(walRot[o]) : o \in {p \in Ordinals : walRot[p].ex}}
        \cup UNION {SSTKeys(sst[o]) : o \in {p \in Ordinals : ReaderOpens(sst[p])}}

\* C24 (the WAL is written first): in every state of a running engine each
\* entry of the active MemTable and of the immutable MemTable has a record
\* of its internal key in a WAL segment of the directory, db.wal or rotated,
\* or in a complete SSTable.
WalBeforeMemTable ==
    proc = "up" =>
        \A g \in {gen, immGen} \ {NoGen} :
            \A e \in mt[g].data : e.key \in LoggedKeys

\* the records of the WAL segments of the directory, rotated and db.wal
WalRecords ==
    {walActive.recs[i] : i \in 1..Len(walActive.recs)}
        \cup UNION {{walRot[o].recs[i] : i \in 1..Len(walRot[o].recs)} :
                       o \in {p \in Ordinals : walRot[p].ex}}

\* the number of those records
WalRecordCount ==
    LET n == [o \in Ordinals |-> IF walRot[o].ex THEN Len(walRot[o].recs) ELSE 0]
        Sum[o \in 0..MaxOrd] == IF o = 0 THEN 0 ELSE Sum[o - 1] + n[o]
    IN  Len(walActive.recs) + Sum[MaxOrd]

\* C25 (what recovery yields): when NewDB succeeds, the MemTable it returns
\* holds exactly one entry for each record of each WAL segment of the
\* directory, with the user key, sequence number, type and value of the
\* record, no two records sharing an internal key, and db.sequenceNum is the
\* highest sequence number of those records, 0 when there is none.
RecoveryContent ==
    [][(proc = "down" /\ proc' = "up") =>
          /\ mt'[gen'].data =
                {[key |-> InternalKey(r.key, r.seq, r.op), value |-> r.val] :
                    r \in WalRecords}
          /\ Cardinality(mt'[gen'].data) = WalRecordCount
          /\ immGen' = NoGen
          /\ \A r \in WalRecords : r.seq <= sequenceNum'
          /\ IF WalRecords = {} THEN sequenceNum' = 0
             ELSE \E r \in WalRecords : r.seq = sequenceNum']_vars

\* NewDB has recovered a rotated segment left in the directory and db.wal,
\* two records in all
RecoveredTwoSegments ==
    /\ proc = "up"
    /\ gen = 0 /\ immGen = NoGen
    /\ \A w \in Writers : wr[w].pc = "idle"
    /\ \E o \in Ordinals : walRot[o].ex /\ Len(walRot[o].recs) = 1
    /\ Len(walActive.recs) = 1
    /\ Cardinality(mt[0].data) = 2
    /\ sequenceNum = 2

\* the versions of a key in a tier
TierVersions(t, k) ==
    IF t = MemTier THEN MemVersions(mt[gen], k)
    ELSE IF t = ImmTier
         THEN (IF immGen # NoGen THEN MemVersions(mt[immGen], k) ELSE {})
    ELSE IF t < ssTableCounter /\ ReaderOpens(sst[t]) THEN SSTVersions(sst[t], k)
    ELSE {}

\* the tiers that hold a version of a key
Holding(k) == {t \in Tiers : TierVersions(t, k) # {}}

\* C26 (read merge order): Get of a key held in no tier is not found;
\* otherwise Get returns the verdict of the newest tier that holds the key,
\* active MemTable before immutable MemTable before the SSTables in
\* descending ordinal, which is the verdict of the version of the highest
\* sequence number in that tier: the value of a put, not found for a
\* tombstone, whatever the older tiers hold.
ReadMergeOrder ==
    proc = "up" =>
        \A k \in Keys :
            IF Holding(k) = {} THEN Get(k) = NotFound
            ELSE LET t == CHOOSE x \in Holding(k) : \A y \in Holding(k) : y <= x
                     v == CHOOSE x \in TierVersions(t, k) :
                              \A y \in TierVersions(t, k) : y.seq <= x.seq
                 IN  Get(k) = v.verdict

\* a tombstone in the active MemTable hides a put in an SSTable
TombstoneHidesSSTable ==
    /\ proc = "up"
    /\ \E k \in Keys :
          /\ \E e \in mt[gen].data : e.key.UserKey = k /\ e.key.Type = OpTypeDelete
          /\ \E o \in Ordinals :
                /\ o < ssTableCounter
                /\ ReaderOpens(sst[o])
                /\ \E v \in SSTVersions(sst[o], k) : v.verdict.found
          /\ Get(k) = NotFound

(***************************************************************************)
(* A MemTable on its own: entries are inserted by MemTable.Put and keys    *)
(* are looked up by MemTable.Get.                                          *)
(***************************************************************************)
\* the sequence numbers of the entries: small ones and the largest
MemSeqNums == {1, 2, MaxUint64}

\* the entries Put and Delete of the engine insert: a value for a put, nil
\* for a tombstone
MemCandidates ==
    {[key |-> InternalKey(k, s, OpTypePut), value |-> v] :
        k \in Keys, s \in MemSeqNums, v \in Values}
        \cup {[key |-> InternalKey(k, s, OpTypeDelete), value |-> NilVal] :
                 k \in Keys, s \in MemSeqNums}

\* no lookup made since the last insertion
NoLookup == [val |-> NilVal, found |-> FALSE, made |-> FALSE]

InitMem ==
    /\ stateFile = NoState
    /\ walActive = NoFile
    /\ walRot = [i \in Ordinals |-> NoFile]
    /\ sst = [i \in Ordinals |-> NoSST]
    /\ proc = "down"
    /\ openErr = FALSE
    /\ mt = [g \in Gens |-> NewMemTable]
    /\ gen = 0
    /\ walClosed = FALSE
    /\ immGen = NoGen
    /\ ssTableCounter = 0
    /\ sequenceNum = 0
    /\ wr = [w \in Writers |-> IdleWriter]
    /\ flushers = {}
    /\ nOps = 0
    /\ hiSeq = 0
    /\ last = [k \in Keys |-> NoWrite]
    /\ everDel = FALSE
    /\ pre = [kind |-> "memtable", entries |-> {}, got |-> [k \in Keys |-> NoLookup]]

\* m.Put(key, value), with a sequence number the key does not have yet
MemInsert(e) ==
    /\ Cardinality(pre.entries) < MaxRecords
    /\ ~\E x \in pre.entries :
           x.key.UserKey = e.key.UserKey /\ x.key.SeqNum = e.key.SeqNum
    /\ mt' = [mt EXCEPT ![gen] = MemTablePut(mt[gen], e.key, e.value)]
    /\ pre' = [pre EXCEPT !.entries = @ \cup {e},
                          !.got = [k \in Keys |-> NoLookup]]
    /\ UNCHANGED <<disk, proc, openErr, gen, walClosed, immGen, ssTableCounter,
                   sequenceNum, wr, flushers, nOps, hiSeq, last, everDel>>

\* m.Get(key)
MemLookup(k) ==
    /\ pre' = [pre EXCEPT !.got[k] =
                  [val |-> MemTableGet(mt[gen], k).val,
                   found |-> MemTableGet(mt[gen], k).found, made |-> TRUE]]
    /\ UNCHANGED <<disk, engine, wr, flushers, nOps, hiSeq, last, everDel>>

NextMem ==
    \/ \E e \in MemCandidates : MemInsert(e)
    \/ \E k \in Keys : MemLookup(k)

SpecMem == InitMem /\ [][NextMem]_vars

\* the inserted entries of a user key
EntriesOf(k) == {e \in pre.entries : e.key.UserKey = k}

\* C27 (MemTable point lookup): MemTable.Get of a user key returns the value
\* and true when the inserted entry of the highest sequence number for that
\* user key is a put, nil and true when it is a tombstone, and nil and false
\* when no entry with that user key was inserted.
MemTableLookup ==
    \A k \in Keys :
        pre.got[k].made =>
            IF EntriesOf(k) = {} THEN pre.got[k] = [val |-> NilVal, found |-> FALSE, made |-> TRUE]
            ELSE LET e == CHOOSE x \in EntriesOf(k) :
                              \A y \in EntriesOf(k) : y.key.SeqNum <= x.key.SeqNum
                 IN  pre.got[k] =
                         [val |-> IF e.key.Type = OpTypeDelete THEN NilVal ELSE e.value,
                          found |-> TRUE, made |-> TRUE]

\* a key with an older put and a newer tombstone, beside an entry of the
\* other key, has been looked up
TombstoneLookedUp ==
    \E k \in Keys :
        /\ pre.got[k] = [val |-> NilVal, found |-> TRUE, made |-> TRUE]
        /\ \E e \in EntriesOf(k) : e.key.Type = OpTypePut /\ e.value = BigVal
        /\ \E e \in EntriesOf(k) : e.key.Type = OpTypeDelete
        /\ \E j \in Keys \ {k} : EntriesOf(j) # {}

\* the SSTables below db.ssTableCounter that NewSSTableReader opens and that
\* hold a version of a key
ReadableHolding(k) ==
    {o \in Ordinals :
        o < ssTableCounter /\ ReaderOpens(sst[o]) /\ SSTVersions(sst[o], k) # {}}

\* the SSTables below db.ssTableCounter that NewSSTableReader cannot open
Unreadable == {o \in Ordinals : o < ssTableCounter /\ ~ReaderOpens(sst[o])}

\* C28 (an SSTable that cannot be read is skipped): for a key that neither
\* MemTable holds, Get returns the verdict of the newest SSTable that can be
\* opened and holds the key, and not found when there is none, whichever
\* SSTables below db.ssTableCounter cannot be opened.
UnreadableSkipped ==
    proc = "up" =>
        \A k \in Keys :
            (TierVersions(MemTier, k) = {} /\ TierVersions(ImmTier, k) = {}) =>
                IF ReadableHolding(k) = {} THEN Get(k) = NotFound
                ELSE LET o == CHOOSE x \in ReadableHolding(k) :
                                  \A y \in ReadableHolding(k) : y <= x
                         v == CHOOSE x \in SSTVersions(sst[o], k) :
                                  \A y \in SSTVersions(sst[o], k) : y.seq <= x.seq
                     IN  Get(k) = v.verdict

\* Get has passed over an SSTable that cannot be opened and found the key in
\* an older one
OlderSSTableAnswers ==
    /\ proc = "up"
    /\ \E k \in Keys :
          /\ TierVersions(MemTier, k) = {} /\ TierVersions(ImmTier, k) = {}
          /\ \E o \in ReadableHolding(k) : \E u \in Unreadable : o < u
          /\ Get(k).found

\* the index of the data block the point lookup selects for a user key
SelectedBlock(r, userKey) ==
    SortSearch(r.index, SSTSearchKey(userKey), 0, Len(r.index))

\* C29 (the probe carries the largest sequence number): in the SSTable the
\* flush has written, for every user key with a stored version, whatever its
\* sequence number in 1..MaxUint64, the probe has the sequence number
\* MaxUint64, no stored version sorts before the probe, and the index search
\* selects a data block that holds the version of the highest sequence number.
ProbeMaxSequence ==
    \A f \in flushers :
        f.pc = "written" =>
            \A k \in Keys :
                LET vs == {e \in mt[f.imm].data : e.key.UserKey = k}
                    r == sst[f.ord]
                    b == SelectedBlock(r, k)
                    newest == CHOOSE x \in vs :
                                  \A y \in vs : y.key.SeqNum <= x.key.SeqNum
                IN  vs # {} =>
                        /\ SSTSearchKey(k).SeqNum = MaxUint64
                        /\ \A e \in vs : Compare(e.key, SSTSearchKey(k)) >= 0
                        /\ b < Len(r.index)
                        /\ \E i \in 1..Len(r.blocks[b + 1]) :
                              GobDecode(r.blocks[b + 1][i].kb) = newest.key

====
